---- MODULE Spec2Model ----
(***************************************************************************)
(* adverbs: RAII wrappers over the libibverbs device-verbs primitives.     *)
(*                                                                         *)
(*   scoped_device_list  ibv_get_device_list / ibv_free_device_list        *)
(*   context_handle      ibv_open_device / ibv_close_device, queries       *)
(*   IBDeviceProxy       identity snapshot, open() through a fresh list    *)
(*                                                                         *)
(* The primitives are the environment: each call either succeeds or fails, *)
(* chosen nondeterministically.  Objects are kept in sequences; an object  *)
(* id is its position, and a destroyed object stays with alive = FALSE.    *)
(***************************************************************************)
EXTENDS Integers, Sequences, FiniteSets, TLC

\* ---------------------------------------------------------------- bounds
MaxDirs == 2        \* scoped_device_list objects ever constructed
MaxHandles == 3     \* context_handle objects ever constructed
MaxDevs == 2        \* adapters on the host
MaxPorts == 2       \* physical ports of an adapter
MaxThreads == 2     \* threads holding a copy of one context_handle

VARIABLES
  host,        \* the adapters the host shows now, in the primitive's order
  arrays,      \* arrays returned by successful ibv_get_device_list calls
  dirs,        \* scoped_device_list objects
  ctxs,        \* contexts returned by successful ibv_open_device calls
  handles,     \* context_handle / device_handle objects
  nullFrees,   \* ibv_free_device_list(NULL) calls
  nullCloses,  \* ibv_close_device(NULL) calls
  proxies,     \* IBDeviceProxy descriptors the caller retains
  impl,        \* the header the program is built with
  threads,     \* where each thread holding a context_handle copy stands
  last         \* the last operation: its arguments, primitive calls, result

vars ==
  <<host, arrays, dirs, ctxs, handles, nullFrees, nullCloses, proxies, impl,
    threads, last>>

\* ---------------------------------------------------------------- values
Min(a, b) == IF a < b THEN a ELSE b

\* A pointer to entry idx of array arr; NULLDEV is nullptr.
NULLDEV == [arr |-> 0, idx |-> 0]
DevPtr(a, i) == [arr |-> a, idx |-> i]

\* One primitive call: prim(on, arg), the state of its target when called,
\* and whether the primitive reported success.
Call(p, o, a, s, ok) == [prim |-> p, on |-> o, arg |-> a, st |-> s, ok |-> ok]

NoLast ==
  [op |-> "none", obj |-> 0, name |-> <<>>, num |-> 0, filter |-> "none",
   calls |-> <<>>, threw |-> FALSE, ub |-> FALSE,
   dev |-> NULLDEV, ports |-> <<>>, n |-> 0, fcalls |-> 0, dir |-> 0,
   descs |-> <<>>, entries |-> <<>>]

\* Link layers of struct ibv_port_attr.
IBV_LINK_LAYER_INFINIBAND == "IB"
IBV_LINK_LAYER_ETHERNET == "ETH"
LinkLayers == {IBV_LINK_LAYER_INFINIBAND, IBV_LINK_LAYER_ETHERNET}

\* The port layouts an adapter may have: the link layer of port 1, 2, ...
PortLayouts == UNION {[1..k -> LinkLayers] : k \in 0..MaxPorts}

\* Device names are NUL-terminated character strings; characters are 1..3.
IBV_SYSFS_NAME_MAX == 64
CharAt(s, i) == IF i <= Len(s) THEN s[i] ELSE 0

\* A comparison that stops after the first character.
strncmp_first_char(a, b, n) == CharAt(a, 1) - CharAt(b, 1)

\* strncmp(a, b, n): the difference of the first differing characters among
\* the first n, 0 when there is none before a NUL or the bound.
RECURSIVE strncmp_from(_, _, _, _)
strncmp_from(a, b, n, i) ==
  IF i > n THEN 0
  ELSE IF CharAt(a, i) # CharAt(b, i) THEN CharAt(a, i) - CharAt(b, i)
  ELSE IF CharAt(a, i) = 0 THEN 0
  ELSE strncmp_from(a, b, n, i + 1)

\* strcmp: a comparison that no bound stops.
strcmp(a, b, n) == strncmp_from(a, b, Len(a) + Len(b) + 1, 1)

\* strncmp(a, b, n), from the first character.
strncmp(a, b, n) == strncmp_from(a, b, n, 1)

\* enum ibv_node_type, as far as the adapters of the model go.
IBV_NODE_CA == "IBV_NODE_CA"
IBV_NODE_RNIC == "IBV_NODE_RNIC"

\* The adapters of the standard host: adapter i is named <<1, i>>, has GUID
\* 170 + 17 * (i - 1), kernel index i - 1, and i ports (at most MaxPorts)
\* of alternating link layer.  Its uverbs device is <<2, i>>, at <<3, i>>,
\* and its sysfs directory is <<3, 1, i>>; adapter 1 is a channel adapter,
\* the others are RNICs.
StdPorts(i) ==
  [k \in 1..Min(i, MaxPorts) |->
     IF k % 2 = 1 THEN IBV_LINK_LAYER_INFINIBAND ELSE IBV_LINK_LAYER_ETHERNET]

StdDev(i) ==
  [name |-> <<1, i>>, guid |-> 170 + 17 * (i - 1), index |-> i - 1,
   ports |-> StdPorts(i),
   node_type |-> IF i = 1 THEN IBV_NODE_CA ELSE IBV_NODE_RNIC,
   dev_name |-> <<2, i>>, dev_path |-> <<3, i>>, ibdev_path |-> <<3, 1, i>>]

\* The standard host: every standard adapter, in index order.
StdHost == [i \in 1..MaxDevs |-> StdDev(i)]

\* ------------------------------------------------------ scoped_device_list
\* impl = "shared": the array is owned by a std::shared_ptr whose deleter is
\* ibv_free_device_list.  impl = "raw": the array is a raw pointer freed in
\* the destructor.
Impls == {"shared", "raw"}

\* The scoped_device_list objects that share d's control block and are alive.
DirOwners(d) == {e \in DOMAIN dirs : dirs[e].alive /\ dirs[e].cb = dirs[d].cb}

\* Every scoped_device_list ever constructed on array a.
DirsOf(a) == {e \in DOMAIN dirs : dirs[e].list = a}

\* A deleter that runs whenever any owner goes.
SharedPtrDeleterAlwaysRuns(use_count) == use_count >= 1

\* std::shared_ptr: the deleter runs, on the stored pointer whatever it is,
\* when the owner that goes is the last one of its control block.
SharedPtrDeleterRuns(use_count) == use_count = 1

\* ibv_free_device_list(list): its effect on the arrays and on nullFrees.
FreeArrays(list) ==
  IF list = 0 THEN arrays
  ELSE [arrays EXCEPT ![list].frees = arrays[list].frees + 1]

FreeNulls(list) == IF list = 0 THEN nullFrees + 1 ELSE nullFrees

\* The value an int the constructor never wrote may hold.
Indeterminate == 0..MaxDevs

\* scoped_device_list(): one ibv_get_device_list call.  On success the
\* array holds the host's adapters and the size is their count.  On failure
\* the pointer is NULL; the size is 0 where the member is initialised, and
\* in the raw header it is whatever the primitive left in it.
scoped_device_list_ctor(ok) ==
  /\ Len(dirs) < MaxDirs
  /\ \E sz \in Indeterminate :
       /\ (ok \/ impl = "shared") => sz = 0
       /\ dirs' = Append(dirs,
            [alive |-> TRUE,
             list |-> IF ok THEN Len(arrays) + 1 ELSE 0,
             size |-> IF ok THEN Len(host) ELSE sz,
             cb |-> Len(dirs) + 1])
  /\ arrays' = IF ok THEN Append(arrays, [content |-> host, frees |-> 0])
               ELSE arrays
  /\ last' = [NoLast EXCEPT !.op = "scoped_device_list", !.obj = Len(dirs) + 1,
                !.threw = FALSE,
                !.calls = <<Call("ibv_get_device_list", 0, 0, "host", ok)>>]
  /\ UNCHANGED <<host, ctxs, handles, nullFrees, nullCloses, proxies, impl, threads>>

\* The implicit copy constructor: the copy holds the same pointer and size;
\* with the shared header it joins the control block.
scoped_device_list_copy(d) ==
  /\ Len(dirs) < MaxDirs
  /\ d \in DOMAIN dirs /\ dirs[d].alive
  /\ dirs' = Append(dirs,
       [dirs[d] EXCEPT !.cb = IF impl = "shared" THEN dirs[d].cb
                              ELSE Len(dirs) + 1])
  /\ last' = [NoLast EXCEPT !.op = "scoped_device_list_copy", !.obj = d]
  /\ UNCHANGED <<host, arrays, ctxs, handles, nullFrees, nullCloses, proxies,
                 impl, threads>>

\* A shared_ptr built without the ibv_free_device_list deleter never frees.
DtorFreesNoDeleter(d) == impl = "raw"

\* Whether destroying d invokes ibv_free_device_list.
DtorFrees(d) ==
  IF impl = "shared" THEN SharedPtrDeleterRuns(Cardinality(DirOwners(d)))
  ELSE TRUE

\* A destructor that also closes the contexts opened from the entries of its
\* array, as if the directory owned them.
scoped_device_list_dtor_closes_contexts(d) ==
  /\ d \in DOMAIN dirs /\ dirs[d].alive
  /\ dirs' = [dirs EXCEPT ![d].alive = FALSE]
  /\ arrays' = IF DtorFrees(d) THEN FreeArrays(dirs[d].list) ELSE arrays
  /\ nullFrees' = IF DtorFrees(d) THEN FreeNulls(dirs[d].list) ELSE nullFrees
  /\ ctxs' = [c \in DOMAIN ctxs |->
               IF /\ dirs[d].list # 0
                  /\ \E i \in DOMAIN arrays[dirs[d].list].content :
                       arrays[dirs[d].list].content[i] = ctxs[c].dev
               THEN [ctxs[c] EXCEPT !.closes = ctxs[c].closes + 1]
               ELSE ctxs[c]]
  /\ last' = [NoLast EXCEPT !.op = "~scoped_device_list", !.obj = d,
       !.calls = IF DtorFrees(d)
                 THEN <<Call("ibv_free_device_list", dirs[d].list, 0,
                             IF dirs[d].list = 0 THEN "null"
                             ELSE IF arrays[dirs[d].list].frees = 0 THEN "live"
                             ELSE "freed", TRUE)>>
                 ELSE <<>>]
  /\ UNCHANGED <<host, handles, nullCloses, proxies, impl, threads>>

\* ~scoped_device_list().
scoped_device_list_dtor(d) ==
  /\ d \in DOMAIN dirs /\ dirs[d].alive
  /\ dirs' = [dirs EXCEPT ![d].alive = FALSE]
  /\ arrays' = IF DtorFrees(d) THEN FreeArrays(dirs[d].list) ELSE arrays
  /\ nullFrees' = IF DtorFrees(d) THEN FreeNulls(dirs[d].list) ELSE nullFrees
  /\ last' = [NoLast EXCEPT !.op = "~scoped_device_list", !.obj = d,
       !.calls = IF DtorFrees(d)
                 THEN <<Call("ibv_free_device_list", dirs[d].list, 0,
                             IF dirs[d].list = 0 THEN "null"
                             ELSE IF arrays[dirs[d].list].frees = 0 THEN "live"
                             ELSE "freed", TRUE)>>
                 ELSE <<>>]
  /\ UNCHANGED <<host, ctxs, handles, nullCloses, proxies, impl, threads>>

\* The entries d's pointer points at; nothing behind a NULL pointer.
Content(d) == IF dirs[d].list = 0 THEN <<>> ELSE arrays[dirs[d].list].content

\* Reading d's entries is defined: there is none to read, or the array is
\* one ibv_get_device_list returned and ibv_free_device_list has not taken.
DirReadable(d) ==
  \/ dirs[d].size = 0
  \/ dirs[d].list # 0 /\ arrays[dirs[d].list].frees = 0

\* ibv_get_device_index(dev): the kernel index, -1 where the kernel has no
\* netlink support for it.  ibv_get_device_guid(dev): the GUID.
ibv_get_device_index(dev) == dev.index
ibv_get_device_guid(dev) == dev.guid

\* The tests the lookups hand to lookup_by_predicate, as data.
NamePred(name) == [kind |-> "name", name |-> name, num |-> 0]
IndexPred(kernel_index) == [kind |-> "index", name |-> <<>>, num |-> kernel_index]
GuidPred(guid) == [kind |-> "guid", name |-> <<>>, num |-> guid]

predicate(p, dev) ==
  CASE p.kind = "name" -> strncmp(dev.name, p.name, IBV_SYSFS_NAME_MAX) = 0
    [] p.kind = "index" -> ibv_get_device_index(dev) = p.num
    [] p.kind = "guid" -> ibv_get_device_guid(dev) = p.num

\* A scan that falls off the loop with the last entry instead of nullptr.
RECURSIVE range_for_scan_keeps_last(_, _, _, _)
range_for_scan_keeps_last(content, n, p, i) ==
  IF i > n THEN n
  ELSE IF predicate(p, content[i]) THEN i
  ELSE range_for_scan_keeps_last(content, n, p, i + 1)

\* A scan that goes on after a match and returns the last entry matching.
RECURSIVE range_for_scan_last_match(_, _, _, _)
range_for_scan_last_match(content, n, p, i) ==
  IF i > n THEN 0
  ELSE IF range_for_scan_last_match(content, n, p, i + 1) # 0
    THEN range_for_scan_last_match(content, n, p, i + 1)
  ELSE IF predicate(p, content[i]) THEN i
  ELSE 0

\* for (const auto dev : *this) { if (predicate(dev)) return dev; }
\* The position of the entry returned, 0 for the nullptr after the loop.
RECURSIVE range_for_scan(_, _, _, _)
range_for_scan(content, n, p, i) ==
  IF i > n THEN 0
  ELSE IF predicate(p, content[i]) THEN i
  ELSE range_for_scan(content, n, p, i + 1)

\* The scan over the size entries of array list, whose entries are content.
LookupIn(list, content, size, p) ==
  LET m == range_for_scan(content, size, p, 1)
  IN IF m = 0 THEN NULLDEV ELSE DevPtr(list, m)

lookup_by_predicate(d, p) == LookupIn(dirs[d].list, Content(d), dirs[d].size, p)

lookup_by_name(d, name) == lookup_by_predicate(d, NamePred(name))
lookup_by_kernel_index(d, kernel_index) ==
  lookup_by_predicate(d, IndexPred(kernel_index))
lookup_by_guid(d, guid) == lookup_by_predicate(d, GuidPred(guid))

\* A loop that starts at int i = 1 and never compares the first entry.
RECURSIVE raw_name_loop_skips_first(_, _, _, _)
raw_name_loop_skips_first(content, num_devices, name, i) ==
  IF i = 0 THEN raw_name_loop_skips_first(content, num_devices, name, 1)
  ELSE IF ~(i < num_devices) THEN 0
  ELSE IF strncmp(content[i + 1].name, name, IBV_SYSFS_NAME_MAX) = 0 THEN i + 1
  ELSE raw_name_loop_skips_first(content, num_devices, name, i + 1)

\* The earlier header: for (int i = 0; i < num_devices; ++i) with strncmp,
\* and a range-for with ibv_get_device_index.
RECURSIVE raw_name_loop(_, _, _, _)
raw_name_loop(content, num_devices, name, i) ==
  IF ~(i < num_devices) THEN 0
  ELSE IF strncmp(content[i + 1].name, name, IBV_SYSFS_NAME_MAX) = 0 THEN i + 1
  ELSE raw_name_loop(content, num_devices, name, i + 1)

raw_lookup_by_name(d, name) ==
  LET m == raw_name_loop(Content(d), dirs[d].size, name, 0)
  IN IF m = 0 THEN NULLDEV ELSE DevPtr(dirs[d].list, m)

RECURSIVE raw_index_loop(_, _, _, _)
raw_index_loop(content, n, kernel_index, i) ==
  IF i > n THEN 0
  ELSE IF ibv_get_device_index(content[i]) = kernel_index THEN i
  ELSE raw_index_loop(content, n, kernel_index, i + 1)

raw_lookup_by_kernel_index(d, kernel_index) ==
  LET m == raw_index_loop(Content(d), dirs[d].size, kernel_index, 1)
  IN IF m = 0 THEN NULLDEV ELSE DevPtr(dirs[d].list, m)

\* The lookup the built header performs for test p.
LookupResult(d, p) ==
  IF impl = "shared"
  THEN CASE p.kind = "name" -> lookup_by_name(d, p.name)
         [] p.kind = "index" -> lookup_by_kernel_index(d, p.num)
         [] p.kind = "guid" -> lookup_by_guid(d, p.num)
  ELSE IF p.kind = "name" THEN raw_lookup_by_name(d, p.name)
  ELSE raw_lookup_by_kernel_index(d, p.num)

\* The entries a lookup that returned r has examined.
Examined(d, r) == IF r = NULLDEV THEN dirs[d].size ELSE r.idx

\* The primitive calls of a lookup that examined n entries.
LookupCalls(d, p, n) ==
  IF p.kind = "name" THEN <<>>
  ELSE [i \in 1..n |->
          Call(IF p.kind = "index" THEN "ibv_get_device_index"
               ELSE "ibv_get_device_guid", dirs[d].list, i, "live", TRUE)]

\* A lookup on a live scoped_device_list.  Reading a released array, or
\* behind a NULL pointer, is undefined: any pointer may come back.
CallLookup(op, d, p) ==
  /\ d \in DOMAIN dirs /\ dirs[d].alive
  /\ IF DirReadable(d)
     THEN last' = [NoLast EXCEPT !.op = op, !.obj = d, !.name = p.name,
                     !.num = p.num, !.dev = LookupResult(d, p),
                     !.n = Examined(d, LookupResult(d, p)),
                     !.calls = LookupCalls(d, p, Examined(d, LookupResult(d, p)))]
     ELSE \E r \in {NULLDEV} \cup {DevPtr(dirs[d].list, i) : i \in 1..dirs[d].size} :
            last' = [NoLast EXCEPT !.op = op, !.obj = d, !.name = p.name,
                       !.num = p.num, !.dev = r, !.ub = TRUE]
  /\ UNCHANGED <<host, arrays, dirs, ctxs, handles, nullFrees, nullCloses,
                 proxies, impl, threads>>

\* The keys the lookups are called with: every key some standard adapter
\* carries, and keys none carries.
KeyNames == {StdDev(i).name : i \in 1..MaxDevs} \cup {<<1>>, <<1, 1, 1>>, <<2>>}
KeyIndexes == {StdDev(i).index : i \in 1..MaxDevs} \cup {-1, 99999}
KeyGuids == {StdDev(i).guid : i \in 1..MaxDevs} \cup {0, 255}

CallLookupByName(d, name) == CallLookup("lookup_by_name", d, NamePred(name))
CallLookupByKernelIndex(d, kernel_index) ==
  CallLookup("lookup_by_kernel_index", d, IndexPred(kernel_index))
CallLookupByGuid(d, guid) ==
  /\ impl = "shared"
  /\ CallLookup("lookup_by_guid", d, GuidPred(guid))

\* size(): the int the constructor handed to ibv_get_device_list.
size(d) == dirs[d].size

\* begin() and end(): the array pointer, and the array pointer plus size.
begin(d) == [arr |-> dirs[d].list, off |-> 0]
end(d) == [arr |-> dirs[d].list, off |-> dirs[d].size]

\* An iteration that starts at the second slot.
iterate_skips_first(list, n) == [i \in 1..(n - 1) |-> DevPtr(list, i + 1)]

\* for (auto dev : list), equally for (it = begin(); it != end(); ++it):
\* the pointers read from the slots begin() .. end() - 1 of array list.
iterate(list, n) == [i \in 1..n |-> DevPtr(list, i)]

CallSize(d) ==
  /\ d \in DOMAIN dirs /\ dirs[d].alive
  /\ last' = [NoLast EXCEPT !.op = "size", !.obj = d, !.n = size(d)]
  /\ UNCHANGED <<host, arrays, dirs, ctxs, handles, nullFrees, nullCloses,
                 proxies, impl, threads>>

\* A single-pass iteration: the directory is empty once it was walked.
CallIterateConsumes(d) ==
  /\ d \in DOMAIN dirs /\ dirs[d].alive
  /\ last' = IF DirReadable(d)
             THEN [NoLast EXCEPT !.op = "iterate", !.obj = d,
                     !.entries = iterate(dirs[d].list, size(d)),
                     !.n = Len(iterate(dirs[d].list, size(d)))]
             ELSE [NoLast EXCEPT !.op = "iterate", !.obj = d, !.ub = TRUE]
  /\ dirs' = [dirs EXCEPT ![d].size = 0]
  /\ UNCHANGED <<host, arrays, ctxs, handles, nullFrees, nullCloses,
                 proxies, impl, threads>>

\* A full iteration of a live scoped_device_list.  Reading slots of a
\* released array, or behind a NULL pointer, is undefined.
CallIterate(d) ==
  /\ d \in DOMAIN dirs /\ dirs[d].alive
  /\ last' = IF DirReadable(d)
             THEN [NoLast EXCEPT !.op = "iterate", !.obj = d,
                     !.entries = iterate(dirs[d].list, size(d)),
                     !.n = Len(iterate(dirs[d].list, size(d)))]
             ELSE [NoLast EXCEPT !.op = "iterate", !.obj = d, !.ub = TRUE]
  /\ UNCHANGED <<host, arrays, dirs, ctxs, handles, nullFrees, nullCloses,
                 proxies, impl, threads>>

\* operator[](i): *(_device_list.get()[i]), the entry slot i points at.
subscript(list, i) == DevPtr(list, i + 1)

\* Slot i of d's array holds a pointer to an entry: the array is one
\* ibv_get_device_list returned, not released, and i is before its NULL
\* terminator.
SlotDefined(d, i) ==
  /\ dirs[d].list # 0
  /\ arrays[dirs[d].list].frees = 0
  /\ i < Len(arrays[dirs[d].list].content)

\* operator[](i) on a live scoped_device_list.  There is no check of i and
\* no throw: outside the entries the read, or the dereference of what was
\* read, is undefined.
CallSubscript(d, i) ==
  /\ d \in DOMAIN dirs /\ dirs[d].alive
  /\ last' = IF SlotDefined(d, i)
             THEN [NoLast EXCEPT !.op = "operator[]", !.obj = d, !.num = i,
                     !.dev = subscript(dirs[d].list, i)]
             ELSE [NoLast EXCEPT !.op = "operator[]", !.obj = d, !.num = i,
                     !.ub = TRUE]
  /\ UNCHANGED <<host, arrays, dirs, ctxs, handles, nullFrees, nullCloses,
                 proxies, impl, threads>>

\* ---------------------------------------------------------- context_handle
\* context_handle (device_handle in the earlier header) owns the context in
\* a std::shared_ptr whose deleter is ibv_close_device.

\* The context_handle objects that share h's control block and are alive.
HandleOwners(h) ==
  {g \in DOMAIN handles : handles[g].alive /\ handles[g].cb = handles[h].cb}

\* The live context_handle objects whose pointer is context c.
LiveHandlesOf(c) == {g \in DOMAIN handles : handles[g].alive /\ handles[g].ctx = c}

CtxState(c) ==
  IF c = 0 THEN "null" ELSE IF ctxs[c].closes = 0 THEN "open" ELSE "closed"

\* The pointers a caller can take from the live directories: the entries of
\* the arrays ibv_free_device_list has not taken.
ValidDevPtrs ==
  UNION {{DevPtr(dirs[d].list, i) : i \in 1..dirs[d].size} :
           d \in {e \in DOMAIN dirs :
                    /\ dirs[e].alive
                    /\ dirs[e].list # 0
                    /\ arrays[dirs[e].list].frees = 0}}

Deref(ptr) == arrays[ptr.arr].content[ptr.idx]

\* ibv_close_device(ctx) run by the deleter: its effect on the contexts and
\* on nullCloses.
CloseCtxs(c) ==
  IF c = 0 THEN ctxs ELSE [ctxs EXCEPT ![c].closes = ctxs[c].closes + 1]

CloseNulls(c) == IF c = 0 THEN nullCloses + 1 ELSE nullCloses

\* A constructor that, when a closed context exists, opens that instance
\* again instead of taking a new one from ibv_open_device.
context_handle_ctor_reopens(ptr, ok) ==
  /\ Len(handles) < MaxHandles
  /\ ptr \in ValidDevPtrs
  /\ LET closed == {c \in DOMAIN ctxs : ctxs[c].closes > 0}
         c == IF closed = {} THEN Len(ctxs) + 1 ELSE CHOOSE x \in closed : TRUE
     IN /\ ctxs' = IF ~ok THEN ctxs
                   ELSE IF closed = {}
                     THEN Append(ctxs, [dev |-> Deref(ptr), closes |-> 0])
                   ELSE [ctxs EXCEPT ![c] = [dev |-> Deref(ptr), closes |-> 0]]
        /\ handles' = Append(handles,
             [alive |-> TRUE, ctx |-> IF ok THEN c ELSE 0,
              cb |-> Len(handles) + 1])
  /\ last' = [NoLast EXCEPT !.op = "context_handle", !.obj = Len(handles) + 1,
       !.dev = ptr, !.threw = FALSE,
       !.calls = <<Call("ibv_open_device", ptr.arr, ptr.idx, "live", ok)>>]
  /\ UNCHANGED <<host, arrays, dirs, nullFrees, nullCloses, proxies, impl,
                 threads>>

\* context_handle(device): one ibv_open_device call; its result, NULL on
\* failure, goes into the shared_ptr unchecked.
context_handle_ctor(ptr, ok) ==
  /\ Len(handles) < MaxHandles
  /\ ptr \in ValidDevPtrs
  /\ ctxs' = IF ok THEN Append(ctxs, [dev |-> Deref(ptr), closes |-> 0]) ELSE ctxs
  /\ handles' = Append(handles,
       [alive |-> TRUE, ctx |-> IF ok THEN Len(ctxs) + 1 ELSE 0,
        cb |-> Len(handles) + 1])
  /\ last' = [NoLast EXCEPT !.op = "context_handle", !.obj = Len(handles) + 1,
       !.dev = ptr, !.threw = FALSE,
       !.calls = <<Call("ibv_open_device", ptr.arr, ptr.idx, "live", ok)>>]
  /\ UNCHANGED <<host, arrays, dirs, nullFrees, nullCloses, proxies, impl, threads>>

\* The implicit copy constructor: the copy joins h's control block.
context_handle_copy(h) ==
  /\ Len(handles) < MaxHandles
  /\ h \in DOMAIN handles /\ handles[h].alive
  /\ handles' = Append(handles, handles[h])
  /\ last' = [NoLast EXCEPT !.op = "context_handle_copy", !.obj = h]
  /\ UNCHANGED <<host, arrays, dirs, ctxs, nullFrees, nullCloses, proxies, impl, threads>>

\* A handle that closes the context in every destructor, as an owner of a
\* raw pointer does.
HandleReleaseClosesAlways(h) == h \in DOMAIN handles

\* A handle that closes the context when the original goes, whoever remains.
HandleReleaseClosesOriginal(h) == handles[h].cb = h

\* Whether h giving up its ownership invokes ibv_close_device.
HandleReleaseCloses(h) == SharedPtrDeleterRuns(Cardinality(HandleOwners(h)))

\* ~context_handle().
context_handle_dtor(h) ==
  /\ h \in DOMAIN handles /\ handles[h].alive
  /\ handles' = [handles EXCEPT ![h].alive = FALSE]
  /\ ctxs' = IF HandleReleaseCloses(h) THEN CloseCtxs(handles[h].ctx) ELSE ctxs
  /\ nullCloses' = IF HandleReleaseCloses(h) THEN CloseNulls(handles[h].ctx)
                   ELSE nullCloses
  /\ last' = [NoLast EXCEPT !.op = "~context_handle", !.obj = h,
       !.calls = IF HandleReleaseCloses(h)
                 THEN <<Call("ibv_close_device", handles[h].ctx, 0,
                             CtxState(handles[h].ctx), TRUE)>>
                 ELSE <<>>]
  /\ UNCHANGED <<host, arrays, dirs, nullFrees, proxies, impl, threads>>

\* ------------------------------------------------------------------ queries
\* struct ibv_port_attr as ibv_query_port(ctx, port_num) fills it.  port_num
\* is not a field of the struct: it tags the call that filled the entry.
PortAttr(c, port_num) ==
  [port_num |-> port_num,
   link_layer |-> IF port_num \in DOMAIN ctxs[c].dev.ports
                  THEN ctxs[c].dev.ports[port_num] ELSE "none"]

\* attr.phys_port_cnt as ibv_query_device reports it.
phys_port_cnt(c) == Len(ctxs[c].dev.ports)

\* A query that calls ibv_query_device a second time when the first fails.
query_device_attr_retries(c, ok) ==
  [calls |-> IF ok THEN <<Call("ibv_query_device", c, 0, CtxState(c), TRUE)>>
             ELSE <<Call("ibv_query_device", c, 0, CtxState(c), FALSE),
                    Call("ibv_query_device", c, 0, CtxState(c), FALSE)>>,
   threw |-> ~ok, ports |-> <<>>, n |-> IF ok THEN phys_port_cnt(c) ELSE 0]

\* query_device_attr(): one ibv_query_device call; throws when it fails.
query_device_attr(c, ok) ==
  [calls |-> <<Call("ibv_query_device", c, 0, CtxState(c), ok)>>,
   threw |-> ~ok, ports |-> <<>>, n |-> IF ok THEN phys_port_cnt(c) ELSE 0]

\* A loop that passes i, not i + 1, to ibv_query_port.
RECURSIVE query_ports_loop_zero_based(_, _, _, _, _)
query_ports_loop_zero_based(c, cnt, bad, i, acc) ==
  IF ~(i < cnt) THEN acc
  ELSE IF i \in bad
    THEN [acc EXCEPT !.calls = Append(@, Call("ibv_query_port", c, i, CtxState(c), FALSE)),
                     !.threw = TRUE, !.ports = <<>>]
    ELSE query_ports_loop_zero_based(c, cnt, bad, i + 1,
           [acc EXCEPT !.calls = Append(@, Call("ibv_query_port", c, i, CtxState(c), TRUE)),
                       !.ports = Append(@, PortAttr(c, i))])

\* A loop that skips a port whose query failed and returns the others.
RECURSIVE query_ports_loop_best_effort(_, _, _, _, _)
query_ports_loop_best_effort(c, cnt, bad, i, acc) ==
  IF ~(i < cnt) THEN acc
  ELSE query_ports_loop_best_effort(c, cnt, bad, i + 1,
         [acc EXCEPT !.calls = Append(@, Call("ibv_query_port", c, i + 1, CtxState(c),
                                              i + 1 \notin bad)),
                     !.ports = IF i + 1 \in bad THEN @ ELSE Append(@, PortAttr(c, i + 1))])

\* A loop whose bound is i <= attr.phys_port_cnt: one query past the last
\* port.
RECURSIVE query_ports_loop_one_more(_, _, _, _, _)
query_ports_loop_one_more(c, cnt, bad, i, acc) ==
  IF ~(i <= cnt) THEN acc
  ELSE IF i + 1 \in bad
    THEN [acc EXCEPT !.calls = Append(@, Call("ibv_query_port", c, i + 1, CtxState(c), FALSE)),
                     !.threw = TRUE, !.ports = <<>>]
    ELSE query_ports_loop_one_more(c, cnt, bad, i + 1,
           [acc EXCEPT !.calls = Append(@, Call("ibv_query_port", c, i + 1, CtxState(c), TRUE)),
                       !.ports = Append(@, PortAttr(c, i + 1))])

\* for (int i = 0; i < attr.phys_port_cnt; ++i)
\*   if (ibv_query_port(_context.get(), i + 1, &port_attr[i])) throw ...;
\* bad holds the port numbers whose ibv_query_port fails.
RECURSIVE query_ports_loop(_, _, _, _, _)
query_ports_loop(c, cnt, bad, i, acc) ==
  IF ~(i < cnt) THEN acc
  ELSE IF i + 1 \in bad
    THEN [acc EXCEPT !.calls = Append(@, Call("ibv_query_port", c, i + 1, CtxState(c), FALSE)),
                     !.threw = TRUE, !.ports = <<>>]
    ELSE query_ports_loop(c, cnt, bad, i + 1,
           [acc EXCEPT !.calls = Append(@, Call("ibv_query_port", c, i + 1, CtxState(c), TRUE)),
                       !.ports = Append(@, PortAttr(c, i + 1))])

\* query_ports(): query_device_attr(), then the loop over the ports.
query_ports(c, devOk, bad) ==
  IF query_device_attr(c, devOk).threw THEN query_device_attr(c, devOk)
  ELSE query_ports_loop(c, query_device_attr(c, devOk).n, bad, 0,
                        query_device_attr(c, devOk))

\* The filters callers pass, and what each returns for a port.
Filters == {"ib", "eth", "all", "none"}

filter(f, port) ==
  CASE f = "ib" -> port.link_layer = IBV_LINK_LAYER_INFINIBAND
    [] f = "eth" -> port.link_layer = IBV_LINK_LAYER_ETHERNET
    [] f = "all" -> TRUE
    [] f = "none" -> FALSE

\* ports.erase(std::remove_if(first, last, pred), last): the elements for
\* which pred is false, in their order.  keep is the negation of pred.
EraseRemoveIf(ports, keep(_)) == SelectSeq(ports, keep)

\* context_handle::query_ports(filter): remove_if is handed filter itself.
context_handle_query_ports_filter(ports, f) ==
  EraseRemoveIf(ports, LAMBDA port : ~filter(f, port))

\* device_handle::query_ports(filter) of the earlier header: remove_if is
\* handed [&filter](const auto &port) { return !filter(port); }.
device_handle_query_ports_filter(ports, f) ==
  EraseRemoveIf(ports, LAMBDA port : ~~filter(f, port))

\* A filtered query that catches the failure of query_ports() and returns
\* an empty list.
query_ports_filter_swallows(c, devOk, bad, f) ==
  LET r == query_ports(c, devOk, bad)
  IN IF r.threw THEN [r EXCEPT !.n = 0, !.threw = FALSE, !.ports = <<>>]
     ELSE [r EXCEPT !.n = Len(r.ports),
                    !.ports = IF impl = "shared"
                              THEN context_handle_query_ports_filter(r.ports, f)
                              ELSE device_handle_query_ports_filter(r.ports, f)]

\* query_ports(filter): query_ports(), then the erase; the filter runs once
\* for each port of a list that came back.
query_ports_filter(c, devOk, bad, f) ==
  LET r == query_ports(c, devOk, bad)
  IN IF r.threw THEN [r EXCEPT !.n = 0]
     ELSE [r EXCEPT !.n = Len(r.ports),
                    !.ports = IF impl = "shared"
                              THEN context_handle_query_ports_filter(r.ports, f)
                              ELSE device_handle_query_ports_filter(r.ports, f)]

\* A query that closes the context when it throws.
CallQueryClosesOnThrow(op, h, f, r) ==
  /\ h \in DOMAIN handles /\ handles[h].alive
  /\ IF handles[h].ctx # 0
     THEN last' = [NoLast EXCEPT !.op = op, !.obj = h, !.filter = f,
                     !.calls = r.calls, !.threw = r.threw, !.ports = r.ports,
                     !.n = IF op = "query_device_attr" THEN r.n ELSE 0,
                     !.fcalls = IF op = "query_ports_filter" THEN r.n ELSE 0]
     ELSE \E t \in BOOLEAN :
            last' = [NoLast EXCEPT !.op = op, !.obj = h, !.filter = f,
                       !.calls = <<Call("ibv_query_device", 0, 0, "null", ~t)>>,
                       !.threw = t, !.ub = TRUE]
  /\ ctxs' = IF handles[h].ctx # 0 /\ r.threw THEN CloseCtxs(handles[h].ctx)
             ELSE ctxs
  /\ UNCHANGED <<host, arrays, dirs, handles, nullFrees, nullCloses,
                 proxies, impl, threads>>

\* A query through a live handle.  With a NULL context the primitive is
\* handed a null pointer: the behaviour is undefined, anything may come back.
CallQuery(op, h, f, r) ==
  /\ h \in DOMAIN handles /\ handles[h].alive
  /\ IF handles[h].ctx # 0
     THEN last' = [NoLast EXCEPT !.op = op, !.obj = h, !.filter = f,
                     !.calls = r.calls, !.threw = r.threw, !.ports = r.ports,
                     !.n = IF op = "query_device_attr" THEN r.n ELSE 0,
                     !.fcalls = IF op = "query_ports_filter" THEN r.n ELSE 0]
     ELSE \E t \in BOOLEAN :
            last' = [NoLast EXCEPT !.op = op, !.obj = h, !.filter = f,
                       !.calls = <<Call("ibv_query_device", 0, 0, "null", ~t)>>,
                       !.threw = t, !.ub = TRUE]
  /\ UNCHANGED <<host, arrays, dirs, ctxs, handles, nullFrees, nullCloses,
                 proxies, impl, threads>>

\* The context a query through h reaches, 0 where h holds NULL.
QCtx(h) == IF h \in DOMAIN handles /\ handles[h].ctx # 0 THEN handles[h].ctx ELSE 0

CallQueryDeviceAttr(h, ok) ==
  /\ h \in DOMAIN handles
  /\ CallQuery("query_device_attr", h, "none",
               IF QCtx(h) = 0 THEN [calls |-> <<>>, threw |-> FALSE, ports |-> <<>>, n |-> 0]
               ELSE query_device_attr(QCtx(h), ok))

CallQueryPorts(h, devOk, bad) ==
  /\ h \in DOMAIN handles
  /\ CallQuery("query_ports", h, "none",
               IF QCtx(h) = 0 THEN [calls |-> <<>>, threw |-> FALSE, ports |-> <<>>, n |-> 0]
               ELSE query_ports(QCtx(h), devOk, bad))

CallQueryPortsFilter(h, devOk, bad, f) ==
  /\ h \in DOMAIN handles
  /\ CallQuery("query_ports_filter", h, f,
               IF QCtx(h) = 0 THEN [calls |-> <<>>, threw |-> FALSE, ports |-> <<>>, n |-> 0]
               ELSE query_ports_filter(QCtx(h), devOk, bad, f))

\* What the primitives do during one query_ports call: ibv_query_device
\* succeeds or not, and bad holds the ports whose ibv_query_port fails (none,
\* one of them, or all).
QueryOutcomes ==
  {[devOk |-> FALSE, bad |-> {}], [devOk |-> TRUE, bad |-> {}],
   [devOk |-> TRUE, bad |-> 1..MaxPorts]}
    \cup {[devOk |-> TRUE, bad |-> {j}] : j \in 1..MaxPorts}

\* ----------------------------------------------------------------- contexts
\* The program of the tests: one directory over the standard host, then
\* handles opened on its entries, copied, queried and destroyed in
\* any order, and the directory destroyed before or after any of them.
InitCtx ==
  /\ host = <<StdDev(1), StdDev(2)>>
  /\ impl = "shared"
  /\ arrays = <<[content |-> host, frees |-> 0]>>
  /\ dirs = <<[alive |-> TRUE, list |-> 1, size |-> Len(host), cb |-> 1]>>
  /\ ctxs = <<>> /\ handles = <<>>
  /\ nullFrees = 0 /\ nullCloses = 0 /\ proxies = <<>> /\ threads = <<>>
  /\ last = NoLast

NextCtx ==
  \/ \E i \in 1..2, ok \in BOOLEAN : context_handle_ctor(DevPtr(1, i), ok)
  \/ \E h \in 1..MaxHandles : context_handle_copy(h)
  \/ \E h \in 1..MaxHandles : context_handle_dtor(h)
  \/ \E h \in 1..MaxHandles, ok \in BOOLEAN : CallQueryDeviceAttr(h, ok)
  \/ \E h \in 1..MaxHandles, o \in QueryOutcomes : CallQueryPorts(h, o.devOk, o.bad)
  \/ scoped_device_list_dtor(1)

SpecCtx == InitCtx /\ [][NextCtx]_vars

\* ------------------------------------------------------------ port queries
\* One handle opened on an adapter of any port layout, queried in every way
\* under every outcome of the primitives, with either header.
PortHosts ==
  {<<[StdDev(1) EXCEPT !.ports = p]>> : p \in PortLayouts}

InitQuery ==
  /\ host \in PortHosts
  /\ impl \in Impls
  /\ arrays = <<[content |-> host, frees |-> 0]>>
  /\ dirs = <<[alive |-> TRUE, list |-> 1, size |-> Len(host), cb |-> 1]>>
  /\ ctxs = <<>> /\ handles = <<>>
  /\ nullFrees = 0 /\ nullCloses = 0 /\ proxies = <<>> /\ threads = <<>>
  /\ last = NoLast

NextQuery ==
  \/ \E ok \in BOOLEAN : handles = <<>> /\ context_handle_ctor(DevPtr(1, 1), ok)
  \/ \E ok \in BOOLEAN : CallQueryDeviceAttr(1, ok)
  \/ \E o \in QueryOutcomes : CallQueryPorts(1, o.devOk, o.bad)
  \/ \E o \in QueryOutcomes, f \in Filters : CallQueryPortsFilter(1, o.devOk, o.bad, f)
  \/ context_handle_dtor(1)

SpecQuery == InitQuery /\ [][NextQuery]_vars

\* ----------------------------------------------------------------- threads
\* Threads that each hold a copy of one context_handle.  A thread is
\* sequential: it runs a query one primitive call at a time and destroys its
\* copy only between queries.  step 0 is the ibv_query_device call, step k
\* the ibv_query_port call for port k.
Idle == [op |-> "idle", step |-> 0]

\* Thread t enters query_device_attr() or query_ports() on its copy.
thread_call(t, op) ==
  /\ t \in DOMAIN threads /\ threads[t] = Idle
  /\ handles[t].alive
  /\ threads' = [threads EXCEPT ![t] = [op |-> op, step |-> 0]]
  /\ last' = [NoLast EXCEPT !.op = "thread_call", !.obj = t, !.filter = op]
  /\ UNCHANGED <<host, arrays, dirs, ctxs, handles, nullFrees, nullCloses,
                 proxies, impl>>

\* Where thread t stands after its call at this step returned ok: the next
\* port of query_ports(), or back in the caller.
NextStep(t, ok) ==
  IF ok /\ threads[t].op = "query_ports"
        /\ threads[t].step < phys_port_cnt(handles[t].ctx)
  THEN [threads[t] EXCEPT !.step = @ + 1]
  ELSE Idle

\* Thread t makes the next primitive call of its query; the call reaches the
\* context in the state it has at that moment.
thread_step(t, ok) ==
  /\ t \in DOMAIN threads /\ threads[t] # Idle
  /\ threads' = [threads EXCEPT ![t] = NextStep(t, ok)]
  /\ last' = [NoLast EXCEPT !.op = "thread_step", !.obj = t,
       !.filter = threads[t].op, !.num = threads[t].step, !.threw = ~ok,
       !.calls = <<Call(IF threads[t].step = 0 THEN "ibv_query_device"
                        ELSE "ibv_query_port",
                        handles[t].ctx, threads[t].step,
                        CtxState(handles[t].ctx), ok)>>]
  /\ UNCHANGED <<host, arrays, dirs, ctxs, handles, nullFrees, nullCloses,
                 proxies, impl>>

\* Thread t, between queries, destroys its copy.
thread_exit(t) ==
  /\ t \in DOMAIN threads /\ threads[t] = Idle
  /\ context_handle_dtor(t)

\* One context opened on the last adapter of the standard host and copied
\* into MaxThreads handles, one for each thread.
InitThreads ==
  /\ host = StdHost
  /\ impl = "shared"
  /\ arrays = <<[content |-> host, frees |-> 0]>>
  /\ dirs = <<[alive |-> TRUE, list |-> 1, size |-> Len(host), cb |-> 1]>>
  /\ ctxs = <<[dev |-> host[Len(host)], closes |-> 0]>>
  /\ handles = [t \in 1..MaxThreads |-> [alive |-> TRUE, ctx |-> 1, cb |-> 1]]
  /\ threads = [t \in 1..MaxThreads |-> Idle]
  /\ nullFrees = 0 /\ nullCloses = 0 /\ proxies = <<>> /\ last = NoLast

NextThreads ==
  \/ \E t \in 1..MaxThreads, op \in {"query_device_attr", "query_ports"} :
       thread_call(t, op)
  \/ \E t \in 1..MaxThreads, ok \in BOOLEAN : thread_step(t, ok)
  \/ \E t \in 1..MaxThreads : thread_exit(t)

SpecThreads == InitThreads /\ [][NextThreads]_vars

\* ------------------------------------------------------------ directories
\* The program constructs, copies, looks up in and destroys directories.
InitBase ==
  /\ arrays = <<>> /\ dirs = <<>> /\ ctxs = <<>> /\ handles = <<>>
  /\ nullFrees = 0 /\ nullCloses = 0 /\ proxies = <<>> /\ threads = <<>>
  /\ last = NoLast

Init ==
  /\ InitBase
  /\ host = StdHost
  /\ impl \in Impls

Next ==
  \/ \E ok \in BOOLEAN : scoped_device_list_ctor(ok)
  \/ \E d \in 1..MaxDirs : scoped_device_list_copy(d)
  \/ \E d \in 1..MaxDirs : scoped_device_list_dtor(d)
  \/ \E d \in 1..MaxDirs, name \in KeyNames : CallLookupByName(d, name)
  \/ \E d \in 1..MaxDirs, k \in KeyIndexes : CallLookupByKernelIndex(d, k)
  \/ \E d \in 1..MaxDirs, g \in KeyGuids : CallLookupByGuid(d, g)
  \/ \E d \in 1..MaxDirs : CallIterate(d)

Spec == Init /\ [][Next]_vars

\* ------------------------------------------------------------ IBDeviceProxy
\* A descriptor whose dev_name is a second copy of name.
IBDeviceProxy_name_for_dev_name(dev) ==
  [kernel_index |-> ibv_get_device_index(dev),
   guid |-> ibv_get_device_guid(dev),
   node_type |-> dev.node_type,
   name |-> dev.name,
   dev_name |-> dev.name,
   dev_path |-> dev.dev_path,
   ibdev_path |-> dev.ibdev_path]

\* IBDeviceProxy(dev): the identity fields copied out of an entry.
IBDeviceProxy(dev) ==
  [kernel_index |-> ibv_get_device_index(dev),
   guid |-> ibv_get_device_guid(dev),
   node_type |-> dev.node_type,
   name |-> dev.name,
   dev_name |-> dev.dev_name,
   dev_path |-> dev.dev_path,
   ibdev_path |-> dev.ibdev_path]

\* The primitive calls of the IBDeviceProxy constructor on entry i of array a.
ProxyCtorCalls(a, i) ==
  <<Call("ibv_get_device_index", a, i, "live", TRUE),
    Call("ibv_get_device_guid", a, i, "live", TRUE)>>

RECURSIVE Flatten(_)
Flatten(ss) == IF ss = <<>> THEN <<>> ELSE Head(ss) \o Flatten(Tail(ss))

\* The directory a function builds as a local and destroys on every way out:
\* what it leaves in dirs and arrays once the function has returned.
LocalDir(ok) ==
  [alive |-> FALSE, list |-> IF ok THEN Len(arrays) + 1 ELSE 0,
   size |-> IF ok THEN Len(host) ELSE 0, cb |-> Len(dirs) + 1]

\* An enumeration that hands out again what the first enumeration returned.
LocalArraysCached(ok) ==
  IF ok
  THEN Append(arrays,
         [content |-> IF arrays = <<>> THEN host ELSE arrays[1].content,
          frees |-> 1])
  ELSE arrays

LocalArrays(ok) ==
  IF ok THEN Append(arrays, [content |-> host, frees |-> 1]) ELSE arrays

LocalFreeCall(ok) ==
  Call("ibv_free_device_list", IF ok THEN Len(arrays) + 1 ELSE 0, 0,
       IF ok THEN "live" ELSE "null", TRUE)

\* list_devices(): a local scoped_device_list, one IBDeviceProxy per entry in
\* the directory's order, then the directory's destructor.
list_devices(ok) ==
  /\ Len(dirs) < MaxDirs
  /\ dirs' = Append(dirs, LocalDir(ok))
  /\ arrays' = LocalArrays(ok)
  /\ nullFrees' = IF ok THEN nullFrees ELSE nullFrees + 1
  /\ proxies' = [i \in 1..LocalDir(ok).size |-> IBDeviceProxy(host[i])]
  /\ last' = [NoLast EXCEPT !.op = "list_devices", !.dir = Len(dirs) + 1,
       !.descs = [i \in 1..LocalDir(ok).size |-> IBDeviceProxy(host[i])],
       !.calls = <<Call("ibv_get_device_list", 0, 0, "host", ok)>>
                 \o Flatten([i \in 1..LocalDir(ok).size |->
                               ProxyCtorCalls(Len(arrays) + 1, i)])
                 \o <<LocalFreeCall(ok)>>]
  /\ UNCHANGED <<host, ctxs, handles, nullCloses, impl, threads>>

\* An open() whose directory goes out of scope before the context is
\* constructed from the pointer it returned.
IBDeviceProxy_open_after_release(p, getOk, openOk) ==
  /\ p \in DOMAIN proxies
  /\ Len(dirs) < MaxDirs
  /\ Len(handles) < MaxHandles
  /\ LET d == LocalDir(getOk)
         _dev == LookupIn(d.list, host, d.size, IndexPred(proxies[p].kernel_index))
         found == _dev # NULLDEV
         scanned == IF found THEN _dev.idx ELSE d.size
     IN /\ dirs' = Append(dirs, d)
        /\ arrays' = LocalArrays(getOk)
        /\ nullFrees' = IF getOk THEN nullFrees ELSE nullFrees + 1
        /\ ctxs' = IF found /\ openOk
                   THEN Append(ctxs, [dev |-> host[_dev.idx], closes |-> 0])
                   ELSE ctxs
        /\ handles' = IF found
                      THEN Append(handles,
                             [alive |-> TRUE,
                              ctx |-> IF openOk THEN Len(ctxs) + 1 ELSE 0,
                              cb |-> Len(handles) + 1])
                      ELSE handles
        /\ last' = [NoLast EXCEPT !.op = "IBDeviceProxy::open",
             !.obj = IF found THEN Len(handles) + 1 ELSE 0,
             !.num = proxies[p].kernel_index, !.n = p,
             !.dir = Len(dirs) + 1, !.dev = _dev, !.threw = ~found,
             !.calls = <<Call("ibv_get_device_list", 0, 0, "host", getOk)>>
                       \o [i \in 1..scanned |->
                             Call("ibv_get_device_index", d.list, i, "live", TRUE)]
                       \o <<LocalFreeCall(getOk)>>
                       \o (IF found
                           THEN <<Call("ibv_open_device", d.list, _dev.idx, "freed",
                                       openOk)>>
                           ELSE <<>>)]
  /\ UNCHANGED <<host, nullCloses, proxies, impl, threads>>

\* IBDeviceProxy::open() on descriptor p: a local scoped_device_list,
\* lookup_by_kernel_index(kernel_index), a throw when it returns nullptr,
\* otherwise context_handle(_dev) handed back; the directory's destructor
\* runs on both ways out.
IBDeviceProxy_open(p, getOk, openOk) ==
  /\ p \in DOMAIN proxies
  /\ Len(dirs) < MaxDirs
  /\ Len(handles) < MaxHandles
  /\ LET d == LocalDir(getOk)
         _dev == LookupIn(d.list, host, d.size, IndexPred(proxies[p].kernel_index))
         found == _dev # NULLDEV
         scanned == IF found THEN _dev.idx ELSE d.size
     IN /\ dirs' = Append(dirs, d)
        /\ arrays' = LocalArrays(getOk)
        /\ nullFrees' = IF getOk THEN nullFrees ELSE nullFrees + 1
        /\ ctxs' = IF found /\ openOk
                   THEN Append(ctxs, [dev |-> host[_dev.idx], closes |-> 0])
                   ELSE ctxs
        /\ handles' = IF found
                      THEN Append(handles,
                             [alive |-> TRUE,
                              ctx |-> IF openOk THEN Len(ctxs) + 1 ELSE 0,
                              cb |-> Len(handles) + 1])
                      ELSE handles
        /\ last' = [NoLast EXCEPT !.op = "IBDeviceProxy::open",
             !.obj = IF found THEN Len(handles) + 1 ELSE 0,
             !.num = proxies[p].kernel_index, !.n = p,
             !.dir = Len(dirs) + 1, !.dev = _dev, !.threw = ~found,
             !.calls = <<Call("ibv_get_device_list", 0, 0, "host", getOk)>>
                       \o [i \in 1..scanned |->
                             Call("ibv_get_device_index", d.list, i, "live", TRUE)]
                       \o (IF found
                           THEN <<Call("ibv_open_device", d.list, _dev.idx, "live",
                                       openOk)>>
                           ELSE <<>>)
                       \o <<LocalFreeCall(getOk)>>]
  /\ UNCHANGED <<host, nullCloses, proxies, impl, threads>>

\* A change of the adapter set that shows through the descriptors, as if a
\* descriptor were a view of its entry.
HostChangeShowsInDescriptors(h) ==
  /\ h # host
  /\ host' = h
  /\ proxies' = [i \in DOMAIN proxies |->
                   IF i \in DOMAIN h THEN IBDeviceProxy(h[i]) ELSE proxies[i]]
  /\ UNCHANGED <<arrays, dirs, ctxs, handles, nullFrees, nullCloses, impl,
                 threads, last>>

\* The host's adapter set changes between two calls of the program.
HostChange(h) ==
  /\ h # host
  /\ host' = h
  /\ UNCHANGED <<arrays, dirs, ctxs, handles, nullFrees, nullCloses, proxies,
                 impl, threads, last>>

\* The standard host, the standard host after adapter 1 is removed, the
\* same with the remaining adapters renumbered from 0, the standard host on
\* a kernel that reports no device index, and no adapter.
ChurnHosts ==
  {StdHost, Tail(StdHost),
   [i \in 1..(MaxDevs - 1) |-> [StdDev(i + 1) EXCEPT !.index = i - 1]],
   [i \in 1..MaxDevs |-> [StdDev(i) EXCEPT !.index = -1]],
   <<>>}

\* The program of the Python module: list_devices(), open() on the
\* descriptors it returned, queries through and destruction of the contexts,
\* and directories of the caller's own, while the adapter set changes.
InitProxy ==
  /\ InitBase
  /\ host = StdHost
  /\ impl = "shared"

NextProxy ==
  \/ \E ok \in BOOLEAN : list_devices(ok)
  \/ \E p \in 1..MaxDevs, getOk, openOk \in BOOLEAN : IBDeviceProxy_open(p, getOk, openOk)
  \/ \E h \in ChurnHosts : HostChange(h)
  \/ \E ok \in BOOLEAN : scoped_device_list_ctor(ok)
  \/ \E d \in 1..MaxDirs : scoped_device_list_dtor(d)
  \/ \E h \in 1..MaxHandles : context_handle_dtor(h)
  \/ \E h \in 1..MaxHandles, ok \in BOOLEAN : CallQueryDeviceAttr(h, ok)

SpecProxy == InitProxy /\ [][NextProxy]_vars

\* --------------------------------------------------------------- lookups
\* The lookups of one directory over every small adapter set: names that
\* are prefixes of one another, GUIDs that repeat, and adapters whose kernel
\* index the kernel does not report (-1).
RichDevs ==
  [name : {<<1>>, <<1, 1>>, <<2>>}, guid : {170, 187}, index : {-1, 0, 1},
   ports : {<<>>}, node_type : {IBV_NODE_CA}, dev_name : {<<2>>},
   dev_path : {<<3>>}, ibdev_path : {<<3, 1>>}]

\* The kernel names its adapters apart and numbers them apart: no two
\* entries share a name, none a kernel index the kernel reports.
WellFormedHost(h) ==
  \A i, j \in DOMAIN h :
    i # j => /\ h[i].name # h[j].name
             /\ (h[i].index >= 0 => h[i].index # h[j].index)

RichHosts ==
  {h \in UNION {[1..k -> RichDevs] : k \in 0..MaxDevs} : WellFormedHost(h)}

\* The state after `adverbs::scoped_device_list device_list;`.
InitLookup ==
  /\ host \in RichHosts
  /\ impl \in Impls
  /\ \E ok \in BOOLEAN, sz \in Indeterminate :
       /\ (ok \/ impl = "shared") => sz = 0
       /\ arrays = IF ok THEN <<[content |-> host, frees |-> 0]>> ELSE <<>>
       /\ dirs = <<[alive |-> TRUE, list |-> IF ok THEN 1 ELSE 0,
                    size |-> IF ok THEN Len(host) ELSE sz, cb |-> 1]>>
  /\ ctxs = <<>> /\ handles = <<>>
  /\ nullFrees = 0 /\ nullCloses = 0 /\ proxies = <<>> /\ threads = <<>>
  /\ last = NoLast

NextLookup ==
  \/ \E name \in KeyNames : CallLookupByName(1, name)
  \/ \E k \in KeyIndexes : CallLookupByKernelIndex(1, k)
  \/ \E g \in KeyGuids : CallLookupByGuid(1, g)
  \/ CallSize(1)
  \/ CallIterate(1)
  \/ \E i \in 0..MaxDevs : CallSubscript(1, i)
  \/ scoped_device_list_dtor(1)

SpecLookup == InitLookup /\ [][NextLookup]_vars

\* -------------------------------------------------------------- long names
\* lookup_by_name around the bound of the comparison.  The name of an entry
\* is a char[IBV_SYSFS_NAME_MAX]: at most that many characters, the longest
\* filling the array with no NUL; the name a caller passes has any length.
Ones(n) == [i \in 1..n |-> 1]

EntryNames ==
  {<<1>>, Ones(IBV_SYSFS_NAME_MAX - 1), Ones(IBV_SYSFS_NAME_MAX),
   Ones(IBV_SYSFS_NAME_MAX - 1) \o <<2>>}

LongKeys ==
  EntryNames \cup
    {<<>>, Ones(IBV_SYSFS_NAME_MAX) \o <<1>>, Ones(IBV_SYSFS_NAME_MAX) \o <<2>>,
     Ones(IBV_SYSFS_NAME_MAX - 1) \o <<2, 1>>}

\* The standard adapters under every choice of distinct entry names.
NameHosts ==
  {h \in UNION {[1..k -> {[StdDev(i) EXCEPT !.name = nm] :
                            i \in 1..MaxDevs, nm \in EntryNames}] :
                  k \in 1..MaxDevs} :
     WellFormedHost(h)}

InitName ==
  /\ host \in NameHosts
  /\ impl \in Impls
  /\ arrays = <<[content |-> host, frees |-> 0]>>
  /\ dirs = <<[alive |-> TRUE, list |-> 1, size |-> Len(host), cb |-> 1]>>
  /\ ctxs = <<>> /\ handles = <<>>
  /\ nullFrees = 0 /\ nullCloses = 0 /\ proxies = <<>> /\ threads = <<>>
  /\ last = NoLast

NextName == \E name \in LongKeys : CallLookupByName(1, name)

SpecName == InitName /\ [][NextName]_vars

\* -------------------------------------------------------------------- loops
\* Every loop of the header on one program: a directory over the first k
\* standard adapters, iterated and searched, and one handle opened on an
\* entry and asked for its ports.
LoopHosts == {SubSeq(StdHost, 1, k) : k \in 0..MaxDevs}

InitLoops ==
  /\ host \in LoopHosts
  /\ impl = "shared"
  /\ arrays = <<[content |-> host, frees |-> 0]>>
  /\ dirs = <<[alive |-> TRUE, list |-> 1, size |-> Len(host), cb |-> 1]>>
  /\ ctxs = <<>> /\ handles = <<>>
  /\ nullFrees = 0 /\ nullCloses = 0 /\ proxies = <<>> /\ threads = <<>>
  /\ last = NoLast

NextLoops ==
  \/ CallSize(1)
  \/ CallIterate(1)
  \/ \E name \in KeyNames : CallLookupByName(1, name)
  \/ \E k \in KeyIndexes : CallLookupByKernelIndex(1, k)
  \/ \E g \in KeyGuids : CallLookupByGuid(1, g)
  \/ \E i \in 1..MaxDevs, ok \in BOOLEAN :
       handles = <<>> /\ context_handle_ctor(DevPtr(1, i), ok)
  \/ \E o \in QueryOutcomes : CallQueryPorts(1, o.devOk, o.bad)

SpecLoops == InitLoops /\ [][NextLoops]_vars

\* ----------------------------------------------------------------- claims
\* C1: ibv_free_device_list is invoked exactly once for each array a
\* successful ibv_get_device_list returned: never while a directory built on
\* it is alive, never twice, and once when its directory is gone.  Stated for
\* every array of the shared_ptr header, and for the arrays of the raw header
\* that exactly one directory was ever constructed on (no copy).
C1_ExactlyOnceRelease ==
  \A a \in DOMAIN arrays :
    (impl = "shared" \/ Cardinality(DirsOf(a)) = 1) =>
      arrays[a].frees = IF \E d \in DirsOf(a) : dirs[d].alive THEN 0 ELSE 1

\* Two directories constructed and destroyed: two arrays, two releases.
C1_Witness ==
  /\ Len(arrays) = 2
  /\ \A d \in DOMAIN dirs : ~dirs[d].alive
  /\ \A a \in DOMAIN arrays : Cardinality(DirsOf(a)) = 1 /\ arrays[a].frees = 1

QueryOps == {"query_device_attr", "query_ports", "query_ports_filter"}

\* Every context_handle object, alive or not, whose pointer is context c.
HandlesOf(c) == {g \in DOMAIN handles : handles[g].ctx = c}

\* The last operation invoked ibv_close_device.
LastClosed == \E j \in DOMAIN last.calls : last.calls[j].prim = "ibv_close_device"

\* C2: for a successfully opened context shared by any number of
\* context_handle copies, ibv_close_device is invoked exactly once on it, by
\* the destruction of the last remaining copy: no close while a copy is
\* alive, one close once none is, and a destructor closes exactly when it
\* leaves no live copy behind.
C2_CloseOnceAtLastOwner ==
  /\ \A c \in DOMAIN ctxs :
       ctxs[c].closes = IF LiveHandlesOf(c) = {} THEN 1 ELSE 0
  /\ (last.op = "~context_handle" /\ handles[last.obj].ctx # 0) =>
       (LastClosed <=> LiveHandlesOf(handles[last.obj].ctx) = {})

\* The original is destroyed after its copy and closes the context, while a
\* handle of another context is still alive.
C2_Witness ==
  /\ last.op = "~context_handle"
  /\ handles[last.obj].ctx # 0
  /\ handles[last.obj].cb = last.obj
  /\ Cardinality(HandlesOf(handles[last.obj].ctx)) >= 2
  /\ ctxs[handles[last.obj].ctx].closes = 1
  /\ \E g \in DOMAIN handles :
       handles[g].alive /\ handles[g].ctx \notin {0, handles[last.obj].ctx}

\* C3: while a context_handle sharing an opened context is alive,
\* ibv_close_device has not been invoked on that context, and every primitive
\* call of a query made through a live handle of an opened context reaches it
\* in the Open state.
C3_OpenWhileOwned ==
  /\ \A h \in DOMAIN handles :
       (handles[h].alive /\ handles[h].ctx # 0) => CtxState(handles[h].ctx) = "open"
  /\ (last.op \in QueryOps /\ handles[last.obj].ctx # 0) =>
       \A j \in DOMAIN last.calls :
         last.calls[j].on = handles[last.obj].ctx /\ last.calls[j].st = "open"

\* A query through a copy whose original is already destroyed.
C3_Witness ==
  /\ last.op = "query_ports"
  /\ handles[last.obj].ctx # 0
  /\ handles[last.obj].cb # last.obj
  /\ ~handles[handles[last.obj].cb].alive
  /\ Len(last.calls) >= 2

\* The list query_ports() returns on context c when every primitive succeeds.
AllPorts(c) == [k \in 1..phys_port_cnt(c) |-> PortAttr(c, k)]

\* C4: query_ports(p) returns exactly the subsequence of query_ports() made
\* of the ports for which p returns true, in the same order.
C4_FilterKeepsMatching ==
  (last.op = "query_ports_filter" /\ ~last.threw /\ ~last.ub) =>
    last.ports = SelectSeq(AllPorts(handles[last.obj].ctx),
                           LAMBDA port : filter(last.filter, port))

\* C5: on success query_ports() returns exactly phys_port_cnt entries, the
\* k-th being what ibv_query_port returned for port k; after the one
\* ibv_query_device call the ports queried are 1, 2, ... in ascending order,
\* each once, and never 0 or a number above phys_port_cnt.
C5_OneQueryPerPort ==
  (last.op = "query_ports" /\ ~last.ub) =>
    LET c == handles[last.obj].ctx
    IN /\ last.calls[1].prim = "ibv_query_device"
       /\ \A j \in 2..Len(last.calls) :
            /\ last.calls[j].prim = "ibv_query_port"
            /\ last.calls[j].arg = j - 1
            /\ last.calls[j].arg \in 1..phys_port_cnt(c)
       /\ ~last.threw =>
            /\ Len(last.calls) = phys_port_cnt(c) + 1
            /\ last.ports = AllPorts(c)

\* A successful query_ports() on an adapter of MaxPorts ports.
C5_Witness ==
  /\ last.op = "query_ports"
  /\ ~last.threw /\ ~last.ub
  /\ Len(last.ports) = MaxPorts
  /\ Len(last.calls) = MaxPorts + 1

\* C6: query_ports() is all-or-nothing: a list comes back only when every
\* primitive call succeeded; when a call fails the query throws, returns no
\* list, and the failed call is the last one made (nothing after it, no
\* retry); when ibv_query_device fails no port is queried.
C6_AllOrNothing ==
  (last.op = "query_ports" /\ ~last.ub) =>
    /\ last.threw <=> \E j \in DOMAIN last.calls : ~last.calls[j].ok
    /\ last.threw =>
         /\ last.ports = <<>>
         /\ \A j \in DOMAIN last.calls : ~last.calls[j].ok => j = Len(last.calls)
         /\ ~last.calls[1].ok => Len(last.calls) = 1

\* ibv_query_port fails for port 1 of an adapter with more ports.
C6_Witness ==
  /\ last.op = "query_ports"
  /\ last.threw /\ ~last.ub
  /\ Len(last.calls) = 2
  /\ phys_port_cnt(handles[last.obj].ctx) >= 2

\* The last operation called ibv_open_device and it failed.
LastOpenFailed ==
  \E j \in DOMAIN last.calls :
    last.calls[j].prim = "ibv_open_device" /\ ~last.calls[j].ok

\* C7: when ibv_open_device reports failure, constructing a context_handle
\* fails with an error, and no query is issued through a handle whose open
\* failed.
C7_OpenFailureThrows ==
  /\ LastOpenFailed => last.threw
  /\ last.op \in QueryOps => handles[last.obj].ctx # 0

\* C8: ibv_close_device is invoked exactly once for each successful
\* ibv_open_device, and never for an open that failed (never with NULL).
C8_CloseOncePerOpen ==
  /\ nullCloses = 0
  /\ \A c \in DOMAIN ctxs :
       ctxs[c].closes <= 1 /\ (LiveHandlesOf(c) = {} => ctxs[c].closes = 1)

\* The entries of the directory the last operation built.
LastDirEntries ==
  IF dirs[last.dir].list = 0 THEN <<>> ELSE arrays[dirs[last.dir].list].content

\* The last operation called ibv_open_device.
LastOpened == \E j \in DOMAIN last.calls : last.calls[j].prim = "ibv_open_device"

\* C9: IBDeviceProxy::open() on a descriptor with kernel_index k enumerates a
\* fresh directory; if no entry resolves to k it fails with a not-found
\* error, does not invoke ibv_open_device and releases the directory exactly
\* once; if an entry resolves to k it returns a context opened on that entry,
\* in the Open state so that its attributes can be queried.
C9_ProxyOpenResolves ==
  last.op = "IBDeviceProxy::open" =>
    /\ dirs[last.dir].list # 0 => arrays[dirs[last.dir].list].frees = 1
    /\ IF \A i \in DOMAIN LastDirEntries :
            ibv_get_device_index(LastDirEntries[i]) # last.num
       THEN last.threw /\ ~LastOpened /\ last.obj = 0
       ELSE /\ ~last.threw
            /\ last.obj \in DOMAIN handles
            /\ handles[last.obj].ctx # 0
            /\ ibv_get_device_index(ctxs[handles[last.obj].ctx].dev) = last.num

\* Entry dev carries the key of the last lookup.
CarriesLastKey(dev) ==
  CASE last.op = "lookup_by_name" -> dev.name = last.name
    [] last.op = "lookup_by_kernel_index" -> ibv_get_device_index(dev) = last.num
    [] last.op = "lookup_by_guid" -> ibv_get_device_guid(dev) = last.num
    [] OTHER -> FALSE

LookupOps == {"lookup_by_name", "lookup_by_kernel_index", "lookup_by_guid"}

LastLookupMisses ==
  /\ last.op \in LookupOps
  /\ ~last.ub
  /\ \A i \in 1..dirs[last.obj].size : ~CarriesLastKey(Content(last.obj)[i])

\* C10: a lookup by name, kernel index or GUID with a key no entry of the
\* directory carries returns nullptr and raises no error, on every directory,
\* the empty ones included.
C10_MissReturnsNull ==
  LastLookupMisses => last.dev = NULLDEV /\ ~last.threw

\* A miss on a directory of MaxDevs entries, and a miss on an empty one.
C10_Witness ==
  /\ LastLookupMisses
  /\ last.op = "lookup_by_kernel_index"
  /\ last.num = 99999
  /\ dirs[last.obj].size = MaxDevs

\* The positions of the entries of the last lookup's directory that carry
\* its key.
LastCarriers ==
  {i \in 1..size(last.obj) : CarriesLastKey(Content(last.obj)[i])}

\* The last lookup returned an entry whose fields all equal those of entry i
\* of its directory.
LastReturnedEqual(i) ==
  /\ last.dev # NULLDEV
  /\ Deref(last.dev) = Content(last.obj)[i]

C12_IndexRoundTrip ==
  (last.op = "lookup_by_kernel_index" /\ ~last.ub) =>
    \A i \in LastCarriers : last.dev = DevPtr(dirs[last.obj].list, i)

\* ibv_get_device_index reports an index, not -1 for unsupported.
IndexSupported(dev) == ibv_get_device_index(dev) >= 0

\* C13: lookup_by_kernel_index(idx) raises nothing when index resolution is
\* unsupported for an entry, never returns an entry whose index resolution
\* is unsupported, and returns nullptr unless some entry with a supported
\* index resolves to idx.
C13_UnsupportedNeverMatches ==
  (last.op = "lookup_by_kernel_index" /\ ~last.ub) =>
    /\ ~last.threw
    /\ last.dev # NULLDEV => IndexSupported(Deref(last.dev))
    /\ last.dev # NULLDEV <=>
         \E i \in LastCarriers : IndexSupported(Content(last.obj)[i])

\* The operations that read the entries of a directory.
ReadOps == LookupOps \cup {"iterate"}

\* The last operation called ibv_get_device_list and it failed.
LastEnumerationFailed ==
  \E j \in DOMAIN last.calls :
    last.calls[j].prim = "ibv_get_device_list" /\ ~last.calls[j].ok

\* C14: a scoped_device_list whose ibv_get_device_list failed is empty in a
\* defined way: size() is 0, begin() equals end(), iteration yields no entry
\* and every lookup returns nullptr.
C14_FailedEnumerationIsEmpty ==
  /\ \A d \in DOMAIN dirs :
       (dirs[d].alive /\ dirs[d].list = 0) => size(d) = 0 /\ begin(d) = end(d)
  /\ (last.op \in ReadOps /\ dirs[last.obj].list = 0) =>
       ~last.ub /\ last.dev = NULLDEV /\ last.entries = <<>>

\* C15: a failure of ibv_get_device_list reaches the caller of the
\* scoped_device_list constructor, and of list_devices(), as an error, so
\* that a failed enumeration is told apart from one of zero adapters.
C15_EnumerationFailureSurfaced ==
  (last.op \in {"scoped_device_list", "list_devices"} /\ LastEnumerationFailed)
    => last.threw

\* C16: ibv_free_device_list is invoked only on arrays a successful
\* ibv_get_device_list returned: never with NULL, and destroying a directory
\* whose enumeration failed makes no release call.
C16_NoReleaseAfterFailure ==
  /\ nullFrees = 0
  /\ (last.op = "~scoped_device_list" /\ dirs[last.obj].list = 0) =>
       last.calls = <<>>

\* C17: with a scoped_device_list copied, whatever the header,
\* ibv_free_device_list is invoked on the shared array exactly once, after
\* the original and the copy are both destroyed, in either order, and no
\* lookup or iteration through a live one reads a released array.
C17_CopiesReleaseOnce ==
  /\ \A a \in DOMAIN arrays :
       Cardinality(DirsOf(a)) >= 2 =>
         arrays[a].frees = IF \E d \in DirsOf(a) : dirs[d].alive THEN 0 ELSE 1
  /\ (last.op \in ReadOps /\ dirs[last.obj].list # 0) => ~last.ub

\* C18: operator[](i) fails with IndexOutOfRange whenever i >= size(), so for
\* every i on an empty directory, without reading outside the owned array;
\* for i < size() it yields entry i.
C18_SubscriptChecksRange ==
  last.op = "operator[]" =>
    IF last.num >= size(last.obj)
    THEN last.threw /\ ~last.ub
    ELSE ~last.threw /\ ~last.ub
         /\ last.dev = DevPtr(dirs[last.obj].list, last.num + 1)

\* C19: a full iteration yields exactly size() entries, and the i-th
\* iterated entry and operator[](i) both denote the i-th entry of the array
\* ibv_get_device_list returned, in the primitive's order; with the
\* shared_ptr header the iteration of a live directory is always defined.
C19_IterationMatchesArray ==
  /\ (last.op = "iterate" /\ ~last.ub) =>
       /\ Len(last.entries) = size(last.obj)
       /\ last.n = size(last.obj)
       /\ \A i \in 1..Len(last.entries) :
            /\ last.entries[i] = DevPtr(dirs[last.obj].list, i)
            /\ Deref(last.entries[i]) = Content(last.obj)[i]
  /\ (last.op = "operator[]" /\ ~last.ub) =>
       /\ last.num < size(last.obj)
       /\ last.dev = iterate(dirs[last.obj].list, size(last.obj))[last.num + 1]
       /\ Deref(last.dev) = Content(last.obj)[last.num + 1]
  /\ (last.op = "iterate" /\ impl = "shared") => ~last.ub
  /\ \A d \in DOMAIN dirs :
       (dirs[d].alive /\ dirs[d].list # 0) => size(d) = Len(Content(d))

\* The iteration of a directory of MaxDevs entries.
C19_Witness ==
  /\ last.op = "iterate"
  /\ ~last.ub
  /\ Len(last.entries) = MaxDevs
  /\ Deref(last.entries[MaxDevs]) = host[MaxDevs]

\* The positions of the calls of primitive prim in the last operation.
LastCallsOf(prim) == {j \in DOMAIN last.calls : last.calls[j].prim = prim}

\* C20: list_devices() returns one descriptor per entry of one fresh
\* enumeration, in enumeration order, the i-th carrying the kernel index,
\* GUID, node type and identity strings of the i-th entry; every primitive
\* read of an entry precedes the release, and the directory is released
\* exactly once, as the last thing before the list is handed back.
C20_ListDevicesSnapshot ==
  last.op = "list_devices" =>
    /\ ~last.threw
    /\ LastCallsOf("ibv_get_device_list") = {1}
    /\ LastCallsOf("ibv_free_device_list") = {Len(last.calls)}
    /\ \A j \in 2..(Len(last.calls) - 1) :
         /\ last.calls[j].on = dirs[last.dir].list
         /\ last.calls[j].st = "live"
    /\ ~dirs[last.dir].alive
    /\ dirs[last.dir].list # 0 => arrays[dirs[last.dir].list].frees = 1
    /\ Len(last.descs) = Len(LastDirEntries)
    /\ \A i \in DOMAIN last.descs :
         /\ last.descs[i].kernel_index = ibv_get_device_index(LastDirEntries[i])
         /\ last.descs[i].guid = ibv_get_device_guid(LastDirEntries[i])
         /\ last.descs[i].node_type = LastDirEntries[i].node_type
         /\ last.descs[i].name = LastDirEntries[i].name
         /\ last.descs[i].dev_name = LastDirEntries[i].dev_name
         /\ last.descs[i].dev_path = LastDirEntries[i].dev_path
         /\ last.descs[i].ibdev_path = LastDirEntries[i].ibdev_path

\* list_devices() on a host of MaxDevs adapters.
C20_Witness ==
  /\ last.op = "list_devices"
  /\ Len(last.descs) = MaxDevs
  /\ last.descs[MaxDevs].name = StdDev(MaxDevs).name
  /\ arrays[dirs[last.dir].list].frees = 1

\* C21: each query_device_attr() invokes ibv_query_device exactly once, on
\* the handle's context; it throws exactly when the primitive reports an
\* error, and otherwise returns the attributes the primitive produced.
C21_OneDeviceQuery ==
  (last.op = "query_device_attr" /\ ~last.ub) =>
    /\ Len(last.calls) = 1
    /\ last.calls[1].prim = "ibv_query_device"
    /\ last.calls[1].on = handles[last.obj].ctx
    /\ last.threw <=> ~last.calls[1].ok
    /\ ~last.threw => last.n = Len(ctxs[handles[last.obj].ctx].dev.ports)

\* query_device_attr() throws on an adapter that has ports.
C21_Witness ==
  /\ last.op = "query_device_attr"
  /\ ~last.ub
  /\ last.threw
  /\ Len(ctxs[handles[last.obj].ctx].dev.ports) = MaxPorts

\* C22: with threads each holding its own copy of one context_handle, under
\* every interleaving of their query steps and of the destruction of their
\* copies, ibv_close_device is invoked at most once, exactly when the last
\* copy is gone and so after every query of every thread has returned, and
\* every primitive call of a query reaches the context Open.
C22_ThreadsCloseAfterQueries ==
  /\ \A c \in DOMAIN ctxs :
       /\ ctxs[c].closes = IF LiveHandlesOf(c) = {} THEN 1 ELSE 0
       /\ ctxs[c].closes > 0 =>
            \A t \in DOMAIN threads : handles[t].ctx = c => threads[t] = Idle
  /\ last.op = "thread_step" =>
       \A j \in DOMAIN last.calls : last.calls[j].st = "open"

\* A thread queries its last port after every other thread destroyed its
\* copy.
C22_Witness ==
  /\ last.op = "thread_step"
  /\ last.filter = "query_ports"
  /\ last.num = MaxPorts
  /\ \A t \in DOMAIN threads : t # last.obj => ~handles[t].alive
  /\ handles[last.obj].alive

\* C23: a context goes Closed -> Open -> Closed and never back: a step that
\* invokes ibv_open_device is the construction of one new context_handle
\* and invokes it once, no handle ever changes the context it holds, and a
\* context that was closed stays closed and keeps its adapter.
C23_NoReopen ==
  [][/\ \A c \in DOMAIN ctxs :
          /\ c \in DOMAIN ctxs'
          /\ ctxs'[c].dev = ctxs[c].dev
          /\ ctxs[c].closes > 0 => ctxs'[c].closes > 0
     /\ \A h \in DOMAIN handles :
          h \in DOMAIN handles' /\ handles'[h].ctx = handles[h].ctx
     /\ \A c \in DOMAIN ctxs' : c \notin DOMAIN ctxs => ctxs'[c].closes = 0
     /\ (last' # last /\ \E j \in DOMAIN last'.calls :
                            last'.calls[j].prim = "ibv_open_device") =>
          /\ last'.op = "context_handle"
          /\ Len(last'.calls) = 1
          /\ Len(handles') = Len(handles) + 1
          /\ last'.obj = Len(handles')]_vars

\* A context is closed and a later context_handle, newly constructed on the
\* same adapter, is open.
C23_Witness ==
  \E c, e \in DOMAIN ctxs :
    /\ c < e
    /\ ctxs[c].dev = ctxs[e].dev
    /\ ctxs[c].closes = 1
    /\ ctxs[e].closes = 0
    /\ LiveHandlesOf(e) # {}

\* What a comparison bounded by IBV_SYSFS_NAME_MAX sees of a name.
BoundedPrefix(name) == SubSeq(name, 1, Min(Len(name), IBV_SYSFS_NAME_MAX))

\* The entries of the last lookup's directory whose name agrees with the
\* key within the bound.
LastBoundedMatches ==
  {i \in 1..size(last.obj) :
     BoundedPrefix(Content(last.obj)[i].name) = BoundedPrefix(last.name)}

\* C24: lookup_by_name(n) matches an entry exactly when the entry's name and
\* n agree over their first IBV_SYSFS_NAME_MAX characters: names that differ
\* only beyond the bound match, names that differ within it never do, and
\* the first matching entry is returned.
C24_BoundedNameComparison ==
  (last.op = "lookup_by_name" /\ ~last.ub) =>
    IF LastBoundedMatches = {} THEN last.dev = NULLDEV
    ELSE /\ last.dev # NULLDEV
         /\ last.dev.idx \in LastBoundedMatches
         /\ \A i \in LastBoundedMatches : last.dev.idx <= i

\* A name longer than the bound finds the entry it differs from only beyond
\* the bound.
C24_Witness ==
  /\ last.op = "lookup_by_name"
  /\ ~last.ub
  /\ last.dev # NULLDEV
  /\ Len(last.name) > IBV_SYSFS_NAME_MAX
  /\ Deref(last.dev).name # last.name

\* The test the last lookup hands to lookup_by_predicate.
LastPred ==
  CASE last.op = "lookup_by_name" -> NamePred(last.name)
    [] last.op = "lookup_by_kernel_index" -> IndexPred(last.num)
    [] last.op = "lookup_by_guid" -> GuidPred(last.num)

\* The entries of the last lookup's directory that satisfy its test.
LastMatches ==
  {i \in 1..size(last.obj) : predicate(LastPred, Content(last.obj)[i])}

\* C25: lookup_by_predicate returns the first entry in enumeration order
\* that satisfies the predicate, nullptr when none does, and each of
\* lookup_by_name, lookup_by_kernel_index and lookup_by_guid returns what
\* lookup_by_predicate returns for its test: of several entries carrying the
\* key, the earliest.
C25_FirstMatchInOrder ==
  (last.op \in LookupOps /\ ~last.ub) =>
    /\ IF LastMatches = {} THEN last.dev = NULLDEV
       ELSE /\ last.dev.arr = dirs[last.obj].list
            /\ last.dev.idx \in LastMatches
            /\ \A i \in LastMatches : last.dev.idx <= i
    /\ last.dev = lookup_by_predicate(last.obj, LastPred)

\* lookup_by_guid with a GUID that the first and the last of MaxDevs entries
\* carry: the first comes back.
C25_Witness ==
  /\ last.op = "lookup_by_guid"
  /\ ~last.ub
  /\ {1, MaxDevs} \subseteq LastMatches
  /\ MaxDevs > 1
  /\ last.dev = DevPtr(dirs[last.obj].list, 1)

\* What query_ports() does on context c when the primitives answer as they
\* did in the last operation: the unfiltered queries with the same call log.
SameOutcomeQueries(c) ==
  {r \in {query_ports(c, o.devOk, o.bad) : o \in QueryOutcomes} :
     r.calls = last.calls}

\* C26: query_ports(filter) fails exactly when query_ports() fails on the
\* same context under the same primitive outcomes; when the underlying query
\* fails the filter is never invoked and no list comes back, and when it
\* succeeds the filtered form succeeds, the filter having seen each port.
C26_FilterSameFailure ==
  (last.op = "query_ports_filter" /\ ~last.ub) =>
    /\ SameOutcomeQueries(handles[last.obj].ctx) # {}
    /\ \A r \in SameOutcomeQueries(handles[last.obj].ctx) : r.threw = last.threw
    /\ last.threw <=> \E j \in DOMAIN last.calls : ~last.calls[j].ok
    /\ last.threw => last.fcalls = 0 /\ last.ports = <<>>
    /\ ~last.threw => last.fcalls = phys_port_cnt(handles[last.obj].ctx)

\* query_ports(filter) fails at the last of MaxPorts ports.
C26_Witness ==
  /\ last.op = "query_ports_filter"
  /\ ~last.ub
  /\ last.threw
  /\ Len(last.calls) = MaxPorts + 1
  /\ last.fcalls = 0

\* C27: in IBDeviceProxy::open() ibv_open_device is invoked on the entry the
\* lookup returned strictly before ibv_free_device_list is invoked on the
\* directory's array, and on the found and the not-found path alike every
\* use of an entry of that directory precedes the release, which is the last
\* call made.
C27_OpenBeforeRelease ==
  last.op = "IBDeviceProxy::open" =>
    /\ LastCallsOf("ibv_free_device_list") = {Len(last.calls)}
    /\ last.calls[Len(last.calls)].on = dirs[last.dir].list
    /\ \A j \in LastCallsOf("ibv_open_device") :
         /\ j < Len(last.calls)
         /\ last.calls[j].on = dirs[last.dir].list
         /\ last.calls[j].arg = last.dev.idx
    /\ \A j \in 2..(Len(last.calls) - 1) : last.calls[j].st = "live"
    /\ ~last.threw <=> LastOpened
    /\ ~dirs[last.dir].alive

\* open() found its adapter as the last of MaxDevs entries, opened it, and
\* the directory's array is released.
C27_Witness ==
  /\ last.op = "IBDeviceProxy::open"
  /\ LastOpened
  /\ last.dev.idx = MaxDevs
  /\ arrays[dirs[last.dir].list].frees = 1
  /\ handles[last.obj].ctx # 0

\* C28: every construction of a scoped_device_list, the locals of
\* list_devices() and IBDeviceProxy::open() included, invokes
\* ibv_get_device_list exactly once and holds the adapters the host has at
\* that call, in a new array; the entries and the size of the directories
\* that exist already never change.
C28_FreshEnumeration ==
  [][/\ \A a \in DOMAIN arrays :
          a \in DOMAIN arrays' /\ arrays'[a].content = arrays[a].content
     /\ \A d \in DOMAIN dirs :
          /\ d \in DOMAIN dirs'
          /\ dirs'[d].list = dirs[d].list
          /\ dirs'[d].size = dirs[d].size
     /\ \A d \in DOMAIN dirs' :
          d \notin DOMAIN dirs =>
            /\ {j \in DOMAIN last'.calls :
                  last'.calls[j].prim = "ibv_get_device_list"} = {1}
            /\ IF last'.calls[1].ok
               THEN /\ dirs'[d].list \in DOMAIN arrays'
                    /\ dirs'[d].list \notin DOMAIN arrays
                    /\ arrays'[dirs'[d].list].content = host
                    /\ dirs'[d].size = Len(host)
               ELSE dirs'[d].list = 0]_vars

\* A live directory still holds the adapters of its own enumeration while a
\* directory built after the adapter set changed holds the new set.
C28_Witness ==
  \E d, e \in DOMAIN dirs :
    /\ d < e
    /\ dirs[d].alive
    /\ dirs[d].list # 0 /\ dirs[e].list # 0
    /\ arrays[dirs[e].list].content = host
    /\ arrays[dirs[d].list].content # host
    /\ dirs[d].size = Len(arrays[dirs[d].list].content)

\* What operation op can return on context c with filter f, over every
\* outcome of the primitives.
QueryResults(op, c, f) ==
  CASE op = "query_device_attr" -> {query_device_attr(c, ok) : ok \in BOOLEAN}
    [] op = "query_ports" ->
         {query_ports(c, o.devOk, o.bad) : o \in QueryOutcomes}
    [] op = "query_ports_filter" ->
         {query_ports_filter(c, o.devOk, o.bad, f) : o \in QueryOutcomes}

\* C29: a query, of any of the three kinds, after any queries before it and
\* whether it succeeds or throws, leaves the context as it was: the same
\* contexts in the same state on the same adapters, the same owners, no
\* ibv_open_device and no ibv_close_device call; and what it returns is what
\* a first query on the open context can return, whatever came before.
C29_QueriesLeaveContext ==
  [][(last' # last /\ last'.op \in QueryOps) =>
       /\ ctxs' = ctxs
       /\ handles' = handles
       /\ \A j \in DOMAIN last'.calls :
            last'.calls[j].prim \notin {"ibv_open_device", "ibv_close_device"}
       /\ ~last'.ub =>
            /\ \A j \in DOMAIN last'.calls : last'.calls[j].st = "open"
            /\ \E r \in QueryResults(last'.op, handles[last'.obj].ctx,
                                      last'.filter) :
                 /\ r.calls = last'.calls
                 /\ r.threw = last'.threw
                 /\ r.ports = last'.ports]_vars

\* After a query that threw at its last port the handle is alive and its
\* context open.
C29_Witness ==
  /\ last.op \in QueryOps
  /\ last.threw /\ ~last.ub
  /\ Len(last.calls) = MaxPorts + 1
  /\ handles[last.obj].alive
  /\ CtxState(handles[last.obj].ctx) = "open"

\* The descriptors list_devices() builds from the entries of array a.
DescriptorsOf(a) ==
  [i \in DOMAIN arrays[a].content |-> IBDeviceProxy(arrays[a].content[i])]

\* C30: the fields of the descriptors a caller holds are the values captured
\* from the entries of the enumeration that produced them, in every later
\* state: only a new list_devices() call gives the caller other descriptors;
\* destroying or constructing directories, changes of the adapter set and
\* open() never change them.
C30_DescriptorsImmutable ==
  /\ [](proxies = <<>> \/ \E a \in DOMAIN arrays : proxies = DescriptorsOf(a))
  /\ [][proxies' # proxies =>
          /\ last'.op = "list_devices"
          /\ last' # last
          /\ proxies' = last'.descs]_vars

\* After the adapter set changed and open() ran, the caller holds a
\* descriptor whose fields no adapter of the host has any more.
C30_Witness ==
  /\ last.op = "IBDeviceProxy::open"
  /\ \E i \in DOMAIN proxies :
       /\ proxies[i] = IBDeviceProxy(StdDev(i))
       /\ \A j \in DOMAIN host : IBDeviceProxy(host[j]) # proxies[i]

\* The last open() ran on the adapter set its descriptors were captured
\* from: the enumeration succeeded and shows, entry by entry, the fields
\* the caller's descriptors hold.
LastOpenSameAdapters ==
  /\ last.op = "IBDeviceProxy::open"
  /\ dirs[last.dir].list # 0
  /\ proxies = DescriptorsOf(dirs[last.dir].list)

\* C31: when the adapter set is the same at list_devices() and at open(),
\* open() on the descriptor captured from entry e resolves to e itself and
\* invokes ibv_open_device on it, so that the context it yields is a context
\* on the adapter with the descriptor's GUID and name, for every entry of
\* the enumeration and whatever ibv_get_device_index reports for it.
C31_OpenYieldsOwnEntry ==
  LastOpenSameAdapters =>
    /\ ~last.threw
    /\ last.dev = DevPtr(dirs[last.dir].list, last.n)
    /\ \A j \in LastCallsOf("ibv_open_device") : last.calls[j].arg = last.n
    /\ handles[last.obj].ctx # 0 =>
         /\ ctxs[handles[last.obj].ctx].dev.guid = proxies[last.n].guid
         /\ ctxs[handles[last.obj].ctx].dev.name = proxies[last.n].name

\* The same for the entries whose kernel index ibv_get_device_index reports.
C31_SupportedOpenYieldsOwnEntry ==
  (LastOpenSameAdapters /\ proxies[last.n].kernel_index >= 0) =>
    /\ ~last.threw
    /\ last.dev = DevPtr(dirs[last.dir].list, last.n)
    /\ \A j \in LastCallsOf("ibv_open_device") : last.calls[j].arg = last.n

\* Context c was opened from an entry of an array that ibv_free_device_list
\* has taken since.
OpenedFromReleased(c) ==
  \E a \in DOMAIN arrays :
    /\ arrays[a].frees >= 1
    /\ \E i \in DOMAIN arrays[a].content : arrays[a].content[i] = ctxs[c].dev

C33_LoopsBounded ==
  /\ []((last.op = "iterate" /\ ~last.ub) =>
          /\ last.n = size(last.obj)
          /\ Len(last.entries) = size(last.obj)
          /\ last.entries = iterate(dirs[last.obj].list, size(last.obj))
          /\ \A i \in 1..Len(last.entries) :
               last.entries[i] = DevPtr(dirs[last.obj].list, i))
  /\ [][\A d \in DOMAIN dirs :
          dirs'[d].alive =>
            iterate(dirs'[d].list, dirs'[d].size) = iterate(dirs[d].list, size(d))]_vars
  /\ []((last.op \in LookupOps /\ ~last.ub) =>
          /\ last.n <= size(last.obj)
          /\ Len(last.calls) <= size(last.obj))
  /\ []((last.op = "query_ports" /\ ~last.ub) =>
          /\ Cardinality(LastCallsOf("ibv_query_port"))
               <= phys_port_cnt(handles[last.obj].ctx)
          /\ Cardinality(LastCallsOf("ibv_query_device")) = 1
          /\ ~last.threw =>
               /\ Cardinality(LastCallsOf("ibv_query_port"))
                    = phys_port_cnt(handles[last.obj].ctx)
               /\ Len(last.ports) = phys_port_cnt(handles[last.obj].ctx))

\* query_ports returned every port of an adapter with MaxPorts ports, opened
\* from the last entry of a directory of MaxDevs entries.
C33_Witness ==
  /\ last.op = "query_ports"
  /\ ~last.threw /\ ~last.ub
  /\ size(1) = MaxDevs
  /\ Len(last.ports) = MaxPorts
  /\ Cardinality(LastCallsOf("ibv_query_port")) = MaxPorts

\* The operations that read a directory.
DirReadOps == ReadOps \cup {"size", "operator[]"}

\* C34: every step of size(), operator[], a full iteration or a lookup, hit
\* or miss, leaves every directory and every array as it was (same entries,
\* same order, same size, same owners, not released) and calls neither
\* ibv_get_device_list nor ibv_free_device_list.  Stated for the reads whose
\* behaviour is defined.
C34_ReadsLeaveDirectory ==
  [][(last' # last /\ last'.op \in DirReadOps /\ ~last'.ub) =>
       /\ dirs' = dirs
       /\ arrays' = arrays
       /\ nullFrees' = nullFrees
       /\ \A j \in DOMAIN last'.calls :
            last'.calls[j].prim \notin
              {"ibv_get_device_list", "ibv_free_device_list"}]_vars

\* operator[] read the last entry of a live directory of MaxDevs entries,
\* which still holds every adapter of the host in an array not released.
C34_Witness ==
  /\ last.op = "operator[]"
  /\ ~last.ub
  /\ last.num = MaxDevs - 1
  /\ dirs[1].alive
  /\ size(1) = MaxDevs
  /\ Content(1) = host
  /\ arrays[1].frees = 0

\* Directory d holds an enumeration: an array ibv_get_device_list returned,
\* not released, with its number of entries as size.
HoldsEnumeration(d) ==
  /\ dirs[d].list # 0
  /\ arrays[dirs[d].list].frees = 0
  /\ dirs[d].size = Len(arrays[dirs[d].list].content)

\* C35: on every directory that holds an enumeration, and for every key, the
\* loop-based lookup_by_name and lookup_by_kernel_index of the earlier header
\* return what the lookup_by_predicate-based ones of the later header
\* return, the same entry or nullptr; the lookup the built header ran
\* returned that value.
C35_LookupVariantsAgree ==
  /\ \A d \in DOMAIN dirs :
       HoldsEnumeration(d) =>
         /\ \A name \in KeyNames :
              raw_lookup_by_name(d, name) = lookup_by_name(d, name)
         /\ \A k \in KeyIndexes :
              raw_lookup_by_kernel_index(d, k) = lookup_by_kernel_index(d, k)
  /\ (last.op = "lookup_by_name" /\ ~last.ub /\ HoldsEnumeration(last.obj)) =>
       /\ last.dev = raw_lookup_by_name(last.obj, last.name)
       /\ last.dev = lookup_by_name(last.obj, last.name)
  /\ (last.op = "lookup_by_kernel_index" /\ ~last.ub
        /\ HoldsEnumeration(last.obj)) =>
       /\ last.dev = raw_lookup_by_kernel_index(last.obj, last.num)
       /\ last.dev = lookup_by_kernel_index(last.obj, last.num)

\* The earlier header found a name at the last of MaxDevs entries, the entry
\* the later header's lookup returns for it, and misses another key.
C35_Witness ==
  /\ impl = "raw"
  /\ last.op = "lookup_by_name"
  /\ HoldsEnumeration(1)
  /\ last.dev = DevPtr(dirs[1].list, MaxDevs)
  /\ last.dev = lookup_by_name(1, last.name)
  /\ \E name \in KeyNames : raw_lookup_by_name(1, name) = NULLDEV

====
